---- MODULE Spec2Model ----
(***************************************************************************)
(* Model of generate-diagram.py: a straight-line script that builds a      *)
(* matplotlib figure (boxes, arrows, labels, dotted lines, a legend),      *)
(* saves it to 'systems-diagram.png' and prints a confirmation.            *)
(*                                                                         *)
(* Lengths are fixed-point integers in hundredths of a data unit           *)
(* (0.5 is 50, 6.15 is 615, 10 is 1000); alpha is in hundredths too        *)
(* (0.4 is 40, opaque is 100).  Every literal of the script has at most    *)
(* two decimals, so the representation is exact.                           *)
(***************************************************************************)
EXTENDS Integers, Sequences, FiniteSets, TLC

VARIABLES
    pc,           \* index into Program of the next statement to execute
    fig,          \* has plt.subplots created the figure and axes
    xlim, ylim,   \* the axes' data limits
    axisOn,       \* are the axes decorations drawn
    patches,      \* ax.patches, in insertion order
    texts,        \* ax.texts, in insertion order
    lines,        \* ax.lines, in insertion order
    legend,       \* the axes' legend: <<>> or <<the legend>>
    tight,        \* has plt.tight_layout run
    file,         \* what is at 'systems-diagram.png' in the working directory
    fileWritable, \* may this user open an existing file there for writing
    dirWritable,  \* may this user create a file in the working directory
    stdout,       \* lines printed by this process
    exitCode,     \* -1 while the process runs, then its exit status
    argv,         \* the command line the process was started with
    trace,        \* history: the calls attempted so far, with their result
    fileBefore,   \* history: `file' when this process started
    run,          \* number of this process (1 for the first invocation)
    prev          \* history: the primitives the previous process had drawn

vars == <<pc, fig, xlim, ylim, axisOn, patches, texts, lines, legend, tight,
          file, fileWritable, dirWritable, stdout, exitCode, argv, trace,
          fileBefore, run, prev>>

(***************************************************************************)
(* Colours (lines 16-21).                                                  *)
(***************************************************************************)
color_external == "#E3F2FD"
color_client == "#FFF3E0"
color_analyzer == "#F3E5F5"
color_orchestrator == "#E8F5E9"
color_claude == "#FFF9C4"
color_output == "#FFEBEE"

(***************************************************************************)
(* Constructors of the drawing primitives.  kw holds the keyword arguments *)
(* of the call; the library's defaults fill in the rest, as in Python.     *)
(***************************************************************************)
\* "round,pad=0.1": the pad of the rounded box style, in hundredths
pad == 10

BboxDefaults == [linestyle |-> "solid", alpha |-> 100]

FancyBboxPatch(name, xy, width, height, kw) ==
    [kind |-> "FancyBboxPatch", name |-> name, x |-> xy[1], y |-> xy[2],
     width |-> width, height |-> height] @@ kw @@ BboxDefaults

ArrowDefaults == [linestyle |-> "solid", alpha |-> 100]

FancyArrowPatch(name, posA, posB, kw) ==
    [kind |-> "FancyArrowPatch", name |-> name, posA |-> posA, posB |-> posB]
        @@ kw @@ ArrowDefaults

TextDefaults == [ha |-> "left", va |-> "baseline", fontweight |-> "normal",
                 style |-> "normal", color |-> "black", bbox |-> <<>>]

Text(x, y, s, kw) == [kind |-> "Text", x |-> x, y |-> y, s |-> s] @@ kw @@ TextDefaults

Line2D(xdata, ydata, kw) == [kind |-> "Line2D", xdata |-> xdata, ydata |-> ydata] @@ kw

Patch(facecolor, edgecolor, label) ==
    [kind |-> "Patch", facecolor |-> facecolor, edgecolor |-> edgecolor, label |-> label]

\* the keyword arguments shared by the centred labels
Centered(fontsize, fontweight, style) ==
    [ha |-> "center", va |-> "center", fontsize |-> fontsize,
     fontweight |-> fontweight, style |-> style]

RoundBox(edgecolor, facecolor, linewidth) ==
    [boxstyle |-> "round", pad |-> pad, edgecolor |-> edgecolor,
     facecolor |-> facecolor, linewidth |-> linewidth]

Arrow(arrowstyle, color) ==
    [arrowstyle |-> arrowstyle, mutation_scale |-> 20, linewidth |-> 2, color |-> color]

(***************************************************************************)
(* The boxes (FancyBboxPatch objects), named as in the script.             *)
(***************************************************************************)
sentry_box ==
    FancyBboxPatch("sentry_box", <<50, 750>>, 200, 100,
                   RoundBox("#1976D2", color_external, 2))

claude_api_box ==
    FancyBboxPatch("claude_api_box", <<750, 750>>, 200, 100,
                   RoundBox("#F57C00", color_external, 2))

sentry_client ==
    FancyBboxPatch("sentry_client", <<50, 600>>, 200, 100,
                   RoundBox("#E64A19", color_client, 2))

issue_analyzer ==
    FancyBboxPatch("issue_analyzer", <<350, 600>>, 200, 100,
                   RoundBox("#7B1FA2", color_analyzer, 2))

\* variant: the box is made tall enough to reach the IssueAnalyzer box above it
orchestrator_tall ==
    FancyBboxPatch("orchestrator", <<350, 420>>, 300, 180,
                   RoundBox("#388E3C", color_orchestrator, 3))

orchestrator ==
    FancyBboxPatch("orchestrator", <<350, 420>>, 300, 120,
                   RoundBox("#388E3C", color_orchestrator, 3))

codebase ==
    FancyBboxPatch("codebase", <<50, 400>>, 200, 100,
                   RoundBox("#455A64", "#ECEFF1", 2))

claude_agent ==
    FancyBboxPatch("claude_agent", <<750, 450>>, 200, 150,
                   RoundBox("#F57C00", color_claude, 2))

output_box ==
    FancyBboxPatch("output_box", <<350, 250>>, 300, 100,
                   RoundBox("#C62828", color_output, 2))

comment_box ==
    FancyBboxPatch("comment_box", <<50, 250>>, 200, 100,
                   [linestyle |-> "dashed"] @@ RoundBox("#1976D2", color_external, 2))

\* variant: the centre of the box (8.5) is given as its left edge
config_box_shifted ==
    FancyBboxPatch("config_box", <<850, 250>>, 200, 100,
                   RoundBox("#616161", "#F5F5F5", 2))

config_box ==
    FancyBboxPatch("config_box", <<750, 250>>, 200, 100,
                   RoundBox("#616161", "#F5F5F5", 2))

(***************************************************************************)
(* The connectors (FancyArrowPatch objects), named as in the script.       *)
(***************************************************************************)
arrow1 == FancyArrowPatch("arrow1", <<150, 750>>, <<150, 700>>, Arrow("->", "#1976D2"))

arrow2 == FancyArrowPatch("arrow2", <<250, 650>>, <<350, 650>>, Arrow("->", "#7B1FA2"))

arrow3 == FancyArrowPatch("arrow3", <<450, 600>>, <<450, 540>>, Arrow("->", "#388E3C"))

arrow4 ==
    FancyArrowPatch("arrow4", <<350, 480>>, <<250, 450>>,
                    [linestyle |-> "dashed"] @@ Arrow("<-", "#455A64"))

arrow5 == FancyArrowPatch("arrow5", <<650, 480>>, <<750, 520>>, Arrow("->", "#F57C00"))

arrow6 == FancyArrowPatch("arrow6", <<850, 600>>, <<850, 750>>, Arrow("<->", "#F57C00"))

arrow7 ==
    FancyArrowPatch("arrow7", <<750, 480>>, <<650, 480>>,
                    [linestyle |-> "dashed"] @@ Arrow("->", "#F57C00"))

arrow8 == FancyArrowPatch("arrow8", <<500, 420>>, <<500, 350>>, Arrow("->", "#C62828"))

arrow9 ==
    FancyArrowPatch("arrow9", <<350, 350>>, <<250, 300>>,
                    [linestyle |-> "dashed"] @@ Arrow("->", "#1976D2"))

arrow10 ==
    FancyArrowPatch("arrow10", <<150, 350>>, <<150, 750>>,
                    [linestyle |-> "dashed", alpha |-> 40] @@ Arrow("->", "#1976D2"))

(***************************************************************************)
(* The comment above each arrow names the two boxes it connects            *)
(* ("# Arrow: A -> B"): arrow name, box A, box B.                          *)
(***************************************************************************)
ArrowComments ==
    << <<"arrow1", "sentry_box", "sentry_client">>,      \* Sentry.io -> SentryClient
       <<"arrow2", "sentry_client", "issue_analyzer">>,  \* SentryClient -> IssueAnalyzer
       <<"arrow3", "issue_analyzer", "orchestrator">>,   \* IssueAnalyzer -> Orchestrator
       <<"arrow4", "orchestrator", "codebase">>,         \* Orchestrator -> Codebase (read)
       <<"arrow5", "orchestrator", "claude_agent">>,     \* Orchestrator -> ClaudeAgent
       <<"arrow6", "claude_agent", "claude_api_box">>,   \* ClaudeAgent -> Claude API
       <<"arrow7", "claude_agent", "orchestrator">>,     \* ClaudeAgent -> Orchestrator
       <<"arrow8", "orchestrator", "output_box">>,       \* Orchestrator -> Output
       <<"arrow9", "orchestrator", "comment_box">>,      \* Orchestrator -> Sentry Comments
       <<"arrow10", "comment_box", "sentry_box">> >>     \* Sentry Comments -> Sentry.io

(***************************************************************************)
(* The legend's handles (lines 188-195).                                   *)
(***************************************************************************)
legend_elements ==
    << Patch(color_external, "black", "External Services"),
       Patch(color_client, "black", "API Clients"),
       Patch(color_analyzer, "black", "Analyzers"),
       Patch(color_orchestrator, "black", "Orchestration"),
       Patch(color_output, "black", "Output"),
       Line2D(<<>>, <<>>, [color |-> "black", linestyle |-> "--", label |-> "Optional Flow"]) >>

(***************************************************************************)
(* The script: its effectful calls in program order.  Each statement       *)
(* carries the source line of the call, the operation and its argument.    *)
(* Non-ASCII characters of the string literals are written in ASCII        *)
(* ("*" for the bullet, "->" for the arrow, "[ok]" for the check mark).    *)
(***************************************************************************)
S(line, op, arg) == [line |-> line, op |-> op, arg |-> arg]

Label(line, x, y, s, kw) == S(line, "text", Text(x, y, s, kw))

Small == [fontsize |-> 8]

Setup ==
    << S(10, "subplots", [figsize |-> <<14, 10>>]),
       S(11, "set_xlim", <<0, 1000>>),
       S(12, "set_ylim", <<0, 1000>>),
       S(13, "axis", "off"),
       Label(24, 500, 950, "Sentry-Claude Autofix System Architecture",
             [ha |-> "center", va |-> "top", fontsize |-> 18, fontweight |-> "bold"]) >>

ExternalServices ==
    << S(32, "add_patch", sentry_box),
       Label(33, 150, 830, "Sentry.io", Centered(11, "bold", "normal")),
       Label(34, 150, 800, "Error Tracking", Centered(9, "normal", "normal")),
       S(40, "add_patch", claude_api_box),
       Label(41, 850, 830, "Claude API", Centered(11, "bold", "normal")),
       Label(42, 850, 800, "Anthropic", Centered(9, "normal", "normal")) >>

SentryClientSection ==
    << S(48, "add_patch", sentry_client),
       Label(49, 150, 670, "SentryClient", Centered(10, "bold", "normal")),
       Label(50, 150, 640, "Fetch Issues", Centered(8, "normal", "normal")),
       Label(51, 150, 615, "& Events", Centered(8, "normal", "normal")),
       S(56, "add_patch", arrow1),
       Label(57, 180, 725, "API", Small) >>

IssueAnalyzerSection ==
    << S(63, "add_patch", issue_analyzer),
       Label(64, 450, 670, "IssueAnalyzer", Centered(10, "bold", "normal")),
       Label(65, 450, 640, "Parse Stack", Centered(8, "normal", "normal")),
       Label(66, 450, 615, "Traces", Centered(8, "normal", "normal")),
       S(71, "add_patch", arrow2),
       Label(72, 300, 670, "Issues", Small) >>

OrchestratorSection ==
    << S(78, "add_patch", orchestrator),
       Label(79, 500, 510, "Orchestrator", Centered(12, "bold", "normal")),
       Label(80, 500, 480, "Workflow Coordinator", Centered(9, "normal", "normal")),
       Label(81, 500, 450, "* Filter Issues  * Read Files  * Manage Flow",
             Centered(7, "normal", "normal")),
       S(87, "add_patch", arrow3),
       Label(88, 480, 570, "Context", Small) >>

CodebaseSection ==
    << S(94, "add_patch", codebase),
       Label(95, 150, 470, "Local Codebase", Centered(10, "bold", "normal")),
       Label(96, 150, 440, "Source Files", Centered(8, "normal", "normal")),
       S(102, "add_patch", arrow4),
       Label(103, 280, 430, "read", [fontsize |-> 8, style |-> "italic"]) >>

ClaudeAgentSection ==
    << S(109, "add_patch", claude_agent),
       Label(110, 850, 560, "ClaudeAgent", Centered(10, "bold", "normal")),
       Label(111, 850, 530, "Build Prompts", Centered(8, "normal", "normal")),
       Label(112, 850, 505, "Call Claude API", Centered(8, "normal", "normal")),
       Label(113, 850, 480, "Parse Response", Centered(8, "normal", "normal")),
       S(118, "add_patch", arrow5),
       Label(119, 680, 520, "Context +", Small),
       Label(120, 680, 495, "Code", Small),
       S(125, "add_patch", arrow6),
       Label(126, 880, 675, "API", Small),
       S(132, "add_patch", arrow7),
       Label(133, 700, 500, "Fix", Small),
       Label(134, 700, 475, "Proposal", Small) >>

OutputSection ==
    << S(140, "add_patch", output_box),
       Label(141, 500, 320, "Output Files", Centered(10, "bold", "normal")),
       Label(142, 500, 290, "JSON + Markdown Proposals", Centered(8, "normal", "normal")),
       S(147, "add_patch", arrow8),
       Label(148, 530, 385, "Save", Small) >>

CommentsSection ==
    << S(155, "add_patch", comment_box),
       Label(156, 150, 320, "Sentry", Centered(10, "bold", "normal")),
       Label(157, 150, 290, "Comments", Centered(8, "normal", "normal")),
       Label(158, 150, 265, "(optional)", Centered(7, "normal", "italic")),
       S(164, "add_patch", arrow9),
       Label(165, 280, 340, "Post", Small),
       S(171, "add_patch", arrow10) >>

DottedLine(line, xdata, ydata) ==
    S(line, "plot", Line2D(xdata, ydata, [fmt |-> "k:", linewidth |-> 1, alpha |-> 30]))

\* variant: config_box is constructed but never added to the axes
ConfigurationSectionNoBox ==
    << Label(178, 850, 320, "Configuration", Centered(10, "bold", "normal")),
       Label(179, 850, 290, ".env File", Centered(8, "normal", "normal")),
       Label(180, 850, 265, "API Keys & Settings", Centered(7, "normal", "normal")),
       DottedLine(183, <<850, 150>>, <<250, 600>>),
       DottedLine(184, <<850, 500>>, <<250, 420>>),
       DottedLine(185, <<850, 850>>, <<250, 450>>) >>

ConfigurationSection ==
    << S(177, "add_patch", config_box),
       Label(178, 850, 320, "Configuration", Centered(10, "bold", "normal")),
       Label(179, 850, 290, ".env File", Centered(8, "normal", "normal")),
       Label(180, 850, 265, "API Keys & Settings", Centered(7, "normal", "normal")),
       DottedLine(183, <<850, 150>>, <<250, 600>>),
       DottedLine(184, <<850, 500>>, <<250, 420>>),
       DottedLine(185, <<850, 850>>, <<250, 450>>) >>

LegendAndFooter ==
    << S(197, "legend", [handles |-> legend_elements, loc |-> "lower center",
                         ncol |-> 3, frameon |-> TRUE, fontsize |-> 8]),
       Label(200, 500, 50,
             "Sentry-Claude Autofix * Automated Error Investigation & Fix Proposals",
             [color |-> "#666666"] @@ Centered(9, "normal", "italic")),
       Label(204, 500, 130,
             "Data Flow: Sentry Issues -> Analysis -> Claude AI -> Fix Proposals -> Output",
             [bbox |-> <<"round", 50, "#FFFFCC", "#999999">>]
                 @@ Centered(8, "normal", "normal")) >>

\* the name of the output file, as passed to plt.savefig
OutputPath == "systems-diagram.png"

\* the confirmation line, split at its spaces
Confirmation == <<"[ok]", "Systems", "diagram", "generated:", "systems-diagram.png">>

\* variant: the confirmation is printed before the figure is saved
FinishPrintFirst ==
    << S(208, "tight_layout", <<>>),
       S(210, "print", Confirmation),
       S(209, "savefig", [fname |-> OutputPath, dpi |-> 300, bbox_inches |-> "tight",
                          facecolor |-> "white"]) >>

Finish ==
    << S(208, "tight_layout", <<>>),
       S(209, "savefig", [fname |-> OutputPath, dpi |-> 300, bbox_inches |-> "tight",
                          facecolor |-> "white"]),
       S(210, "print", Confirmation) >>

\* variant: the figure is saved before the legend and the footer are drawn
ProgramSaveEarly ==
    Setup \o ExternalServices \o SentryClientSection \o IssueAnalyzerSection
          \o OrchestratorSection \o CodebaseSection \o ClaudeAgentSection
          \o OutputSection \o CommentsSection \o ConfigurationSection
          \o Finish \o LegendAndFooter

Program ==
    Setup \o ExternalServices \o SentryClientSection \o IssueAnalyzerSection
          \o OrchestratorSection \o CodebaseSection \o ClaudeAgentSection
          \o OutputSection \o CommentsSection \o ConfigurationSection
          \o LegendAndFooter \o Finish

(***************************************************************************)
(* The process and its environment.                                        *)
(***************************************************************************)
\* the script reads neither sys.argv nor os.environ; these are command lines
\* it may be started with
ArgvChoices ==
    { <<"generate-diagram.py">>,
      <<"generate-diagram.py", "--output", "other.png">> }

\* number of times the script is run, one process after the other
MaxRuns == 2

Absent == [state |-> "absent", gen |-> 0]

\* a complete image written by process number gen (0: it was there before)
Png(gen) == [state |-> "png", gen |-> gen]

NoPrimitives == [patches |-> <<>>, texts |-> <<>>, lines |-> <<>>, legend |-> <<>>]

axesVars == <<fig, xlim, ylim, axisOn, patches, texts, lines, legend, tight>>
fsVars == <<file, fileWritable, dirWritable>>
histVars == <<fileBefore, run, prev>>

\* a fresh interpreter: nothing imported has drawn anything yet
FreshProcess(p, f, xl, yl, on, pa, te, li, le, ti, out, code, tr) ==
    /\ p = 1 /\ f = FALSE
    /\ xl = <<0, 100>> /\ yl = <<0, 100>> /\ on = TRUE
    /\ pa = <<>> /\ te = <<>> /\ li = <<>> /\ le = <<>> /\ ti = FALSE
    /\ out = <<>> /\ code = -1 /\ tr = <<>>

Init ==
    /\ FreshProcess(pc, fig, xlim, ylim, axisOn, patches, texts, lines, legend,
                    tight, stdout, exitCode, trace)
    /\ file \in {Absent, Png(0)}
    /\ fileWritable \in (IF file = Absent THEN {TRUE} ELSE BOOLEAN)
    /\ dirWritable \in BOOLEAN
    /\ argv \in ArgvChoices
    /\ fileBefore = file
    /\ run = 1
    /\ prev = NoPrimitives

Running == exitCode = -1 /\ pc <= Len(Program)

Stmt == Program[pc]

At(op) == Running /\ Stmt.op = op

Called(ok) == trace' = Append(trace, [stmt |-> pc, op |-> Stmt.op, ok |-> ok])

\* the call returns normally and the interpreter goes on to the next statement
Return == pc' = pc + 1 /\ Called(TRUE)

\* line 10: fig, ax = plt.subplots(1, 1, figsize=(14, 10))
Subplots ==
    /\ At("subplots")
    /\ fig' = TRUE
    /\ Return
    /\ UNCHANGED <<xlim, ylim, axisOn, patches, texts, lines, legend, tight>>
    /\ UNCHANGED <<fsVars, stdout, exitCode, argv, histVars>>

\* line 11: ax.set_xlim(0, 10)
SetXlim ==
    /\ At("set_xlim") /\ fig
    /\ xlim' = Stmt.arg
    /\ Return
    /\ UNCHANGED <<fig, ylim, axisOn, patches, texts, lines, legend, tight>>
    /\ UNCHANGED <<fsVars, stdout, exitCode, argv, histVars>>

\* line 12: ax.set_ylim(0, 10)
SetYlim ==
    /\ At("set_ylim") /\ fig
    /\ ylim' = Stmt.arg
    /\ Return
    /\ UNCHANGED <<fig, xlim, axisOn, patches, texts, lines, legend, tight>>
    /\ UNCHANGED <<fsVars, stdout, exitCode, argv, histVars>>

\* line 13: ax.axis('off')
AxisOff ==
    /\ At("axis") /\ fig
    /\ axisOn' = (Stmt.arg # "off")
    /\ Return
    /\ UNCHANGED <<fig, xlim, ylim, patches, texts, lines, legend, tight>>
    /\ UNCHANGED <<fsVars, stdout, exitCode, argv, histVars>>

\* variant: a label's position depends on the command line
TextCallArgv ==
    /\ At("text") /\ fig
    /\ texts' = Append(texts, [Stmt.arg EXCEPT !.x = IF Len(argv) > 1 THEN 0 ELSE @])
    /\ Return
    /\ UNCHANGED <<fig, xlim, ylim, axisOn, patches, lines, legend, tight>>
    /\ UNCHANGED <<fsVars, stdout, exitCode, argv, histVars>>

\* ax.text(x, y, s, ...)
TextCall ==
    /\ At("text") /\ fig
    /\ texts' = Append(texts, Stmt.arg)
    /\ Return
    /\ UNCHANGED <<fig, xlim, ylim, axisOn, patches, lines, legend, tight>>
    /\ UNCHANGED <<fsVars, stdout, exitCode, argv, histVars>>

\* variant: the patch replaces the axes' patches instead of joining them
AddPatchReplace ==
    /\ At("add_patch") /\ fig
    /\ patches' = <<Stmt.arg>>
    /\ Return
    /\ UNCHANGED <<fig, xlim, ylim, axisOn, texts, lines, legend, tight>>
    /\ UNCHANGED <<fsVars, stdout, exitCode, argv, histVars>>

\* ax.add_patch(p)
AddPatch ==
    /\ At("add_patch") /\ fig
    /\ patches' = Append(patches, Stmt.arg)
    /\ Return
    /\ UNCHANGED <<fig, xlim, ylim, axisOn, texts, lines, legend, tight>>
    /\ UNCHANGED <<fsVars, stdout, exitCode, argv, histVars>>

\* ax.plot(xs, ys, 'k:', ...)
Plot ==
    /\ At("plot") /\ fig
    /\ lines' = Append(lines, Stmt.arg)
    /\ Return
    /\ UNCHANGED <<fig, xlim, ylim, axisOn, patches, texts, legend, tight>>
    /\ UNCHANGED <<fsVars, stdout, exitCode, argv, histVars>>

\* line 197: ax.legend(handles=legend_elements, ...); a new legend replaces the old
Legend ==
    /\ At("legend") /\ fig
    /\ legend' = <<Stmt.arg>>
    /\ Return
    /\ UNCHANGED <<fig, xlim, ylim, axisOn, patches, texts, lines, tight>>
    /\ UNCHANGED <<fsVars, stdout, exitCode, argv, histVars>>

\* line 208: plt.tight_layout()
TightLayout ==
    /\ At("tight_layout") /\ fig
    /\ tight' = TRUE
    /\ Return
    /\ UNCHANGED <<fig, xlim, ylim, axisOn, patches, texts, lines, legend>>
    /\ UNCHANGED <<fsVars, stdout, exitCode, argv, histVars>>

(***************************************************************************)
(* line 209: plt.savefig('systems-diagram.png', ...).  The figure is       *)
(* rendered in memory, then the path is opened for writing ("wb": create   *)
(* or truncate) and the image is written to it.  Opening an existing file  *)
(* needs write permission on the file; creating one needs write permission *)
(* on the directory.  A failed open leaves the path as it was.  Once the   *)
(* file is open it has been created or truncated; an I/O error while       *)
(* writing (disk full, ...) raises and leaves it empty or partly written,  *)
(* or removed again when this call had created it.                         *)
(***************************************************************************)
CanOpen == IF file.state = "absent" THEN dirWritable ELSE fileWritable

AfterIOError ==
    {[state |-> "empty", gen |-> run], [state |-> "partial", gen |-> run]}
        \cup (IF file.state = "absent" THEN {Absent} ELSE {})

\* variant: a failure to open the file is caught and ignored
SavefigSwallow ==
    /\ At("savefig") /\ fig
    /\ IF ~CanOpen
         THEN /\ Return
              /\ UNCHANGED <<file, fileWritable, exitCode>>
         ELSE \/ /\ file' = Png(run)
                 /\ fileWritable' = TRUE
                 /\ Return
                 /\ UNCHANGED exitCode
              \/ /\ file' \in AfterIOError
                 /\ fileWritable' = TRUE
                 /\ exitCode' = 1
                 /\ Called(FALSE)
                 /\ UNCHANGED pc
    /\ UNCHANGED <<axesVars, dirWritable, stdout, argv, histVars>>

Savefig ==
    /\ At("savefig") /\ fig
    /\ IF ~CanOpen
         THEN /\ exitCode' = 1
              /\ Called(FALSE)
              /\ UNCHANGED <<pc, file, fileWritable>>
         ELSE \/ /\ file' = Png(run)
                 /\ fileWritable' = TRUE
                 /\ Return
                 /\ UNCHANGED exitCode
              \/ /\ file' \in AfterIOError
                 /\ fileWritable' = TRUE
                 /\ exitCode' = 1
                 /\ Called(FALSE)
                 /\ UNCHANGED pc
    /\ UNCHANGED <<axesVars, dirWritable, stdout, argv, histVars>>

\* line 210: the confirmation line goes to standard output
PrintCall ==
    /\ At("print")
    /\ stdout' = Append(stdout, Stmt.arg)
    /\ Return
    /\ UNCHANGED <<axesVars, fsVars, exitCode, argv, histVars>>

\* the end of the script is reached: the interpreter exits with status 0
Exit ==
    /\ exitCode = -1
    /\ pc = Len(Program) + 1
    /\ exitCode' = 0
    /\ UNCHANGED <<pc, axesVars, fsVars, stdout, argv, trace, histVars>>

\* variant: the exception is caught and the script goes on
RaiseCaught ==
    /\ Running
    /\ pc' = pc + 1
    /\ Called(FALSE)
    /\ UNCHANGED <<axesVars, fsVars, stdout, exitCode, argv, histVars>>

\* the current call raises (no backend, no memory, an encoding error, ...);
\* nothing catches it: the traceback goes to stderr and the exit status is 1
Raise ==
    /\ Running
    /\ exitCode' = 1
    /\ Called(FALSE)
    /\ UNCHANGED <<pc, axesVars, fsVars, stdout, argv, histVars>>

Next ==
    \/ Subplots \/ SetXlim \/ SetYlim \/ AxisOff
    \/ TextCall \/ AddPatch \/ Plot \/ Legend
    \/ TightLayout \/ Savefig \/ PrintCall
    \/ Exit \/ Raise

Spec == Init /\ [][Next]_vars

\* every call of the script returns or raises: the interpreter keeps stepping
FairSpec == Spec /\ WF_vars(Next)

\* the script is started again after the previous process has exited: the
\* file it left and the permissions stay, the command line may differ
Rerun ==
    /\ exitCode # -1
    /\ run < MaxRuns
    /\ FreshProcess(pc', fig', xlim', ylim', axisOn', patches', texts', lines',
                    legend', tight', stdout', exitCode', trace')
    /\ argv' \in ArgvChoices
    /\ fileBefore' = file
    /\ run' = run + 1
    /\ prev' = [patches |-> patches, texts |-> texts, lines |-> lines, legend |-> legend]
    /\ UNCHANGED fsVars

NextRerun == Next \/ Rerun

RerunSpec == Init /\ [][NextRerun]_vars

(***************************************************************************)
(* Vocabulary of the properties.                                           *)
(***************************************************************************)
DrawOps == {"add_patch", "text", "plot", "legend"}

DrawingStmts == {i \in DOMAIN Program : Program[i].op \in DrawOps}

\* positions of the trace at which statement i returned normally
Completions(i) == {k \in DOMAIN trace : trace[k].stmt = i /\ trace[k].ok}

DrawingDone == \A i \in DrawingStmts : Completions(i) # {}

SaveCalls == {k \in DOMAIN trace : trace[k].op = "savefig"}

SavesDone == {k \in SaveCalls : trace[k].ok}

Failures == {k \in DOMAIN trace : ~trace[k].ok}

Terminated == exitCode # -1

IsBox(p) == p.kind = "FancyBboxPatch"

IsArrow(p) == p.kind = "FancyArrowPatch"

Boxes == SelectSeq(patches, IsBox)

Arrows == SelectSeq(patches, IsArrow)

InCanvas(x, y) == 0 <= x /\ x <= 1000 /\ 0 <= y /\ y <= 1000

Contains(words, w) == \E i \in DOMAIN words : words[i] = w

Min(a, b) == IF a <= b THEN a ELSE b

\* two sequences agree wherever both are defined
Agree(a, b) == \A i \in 1..Min(Len(a), Len(b)) : a[i] = b[i]

CountOp(op) == Cardinality({i \in DOMAIN Program : Program[i].op = op})

\* the previous process had completed all its drawing calls
PrevComplete ==
    /\ Len(prev.patches) = CountOp("add_patch")
    /\ Len(prev.texts) = CountOp("text")
    /\ Len(prev.lines) = CountOp("plot")
    /\ Len(prev.legend) = CountOp("legend")

\* the closed rectangle x..x+width, y..y+height of box b, and its boundary
InRect(p, b) ==
    /\ b.x <= p[1] /\ p[1] <= b.x + b.width
    /\ b.y <= p[2] /\ p[2] <= b.y + b.height

OnBoundary(p, b) ==
    /\ InRect(p, b)
    /\ \/ p[1] = b.x \/ p[1] = b.x + b.width
       \/ p[2] = b.y \/ p[2] = b.y + b.height

\* the rectangles of a and b, each enlarged by its pad, have disjoint interiors
PaddedDisjoint(a, b) ==
    \/ a.x + a.width + a.pad <= b.x - b.pad
    \/ b.x + b.width + b.pad <= a.x - a.pad
    \/ a.y + a.height + a.pad <= b.y - b.pad
    \/ b.y + b.height + b.pad <= a.y - a.pad

Drawn(name) == {i \in DOMAIN patches : patches[i].name = name}

(***************************************************************************)
(* C1.  As claimed: in every run the output file is written exactly once,  *)
(* only after every drawing call has completed, and no drawing call        *)
(* follows the save.  Stated of every process that has exited.             *)
(***************************************************************************)
SaveOrdered ==
    /\ \A k \in SaveCalls : \A i \in DrawingStmts : \E j \in Completions(i) : j < k
    /\ \A k \in SaveCalls : \A j \in DOMAIN trace : j > k => trace[j].op \notin DrawOps

C1_WrittenOnceInEveryRun ==
    /\ Terminated => Cardinality(SavesDone) = 1
    /\ SaveOrdered

(***************************************************************************)
(* C1, amended.  plt.savefig is called at most once in every run and       *)
(* exactly once, successfully, in every run that exits with status 0; the  *)
(* call happens only after every drawing call (add_patch, text, plot,      *)
(* legend) has completed, no drawing call follows it, and nothing else     *)
(* changes the file.                                                       *)
(***************************************************************************)
C1_SavedOnceAfterDrawing ==
    /\ Cardinality(SaveCalls) <= 1
    /\ exitCode = 0 => Cardinality(SavesDone) = 1
    /\ SaveOrdered
    /\ file # fileBefore => SaveCalls # {}

C1_Witness ==
    /\ exitCode = 0
    /\ Cardinality(SavesDone) = 1
    /\ DrawingDone
    /\ file = Png(run)

(***************************************************************************)
(* C2.  As claimed: a run that has completed its drawing calls has added   *)
(* 9 FancyBboxPatch instances to the axes.                                 *)
(***************************************************************************)
C2_NineBoxes == DrawingDone => Len(Boxes) = 9

(***************************************************************************)
(* C2, amended.  A run that has completed its drawing calls has added      *)
(* exactly 10 FancyBboxPatch instances to the axes, and no run ever adds   *)
(* more.                                                                   *)
(***************************************************************************)
C2_TenBoxes ==
    /\ Len(Boxes) <= 10
    /\ DrawingDone => Len(Boxes) = 10

C2_Witness == DrawingDone /\ tight /\ Len(Boxes) = 10

(***************************************************************************)
(* C3.  A run that has completed its drawing calls has added exactly 10    *)
(* FancyArrowPatch instances to the axes, and no run ever adds more.       *)
(***************************************************************************)
C3_TenArrows ==
    /\ Len(Arrows) <= 10
    /\ DrawingDone => Len(Arrows) = 10

C3_Witness == DrawingDone /\ SavesDone # {} /\ Len(Arrows) = 10

(***************************************************************************)
(* C4.  Every coordinate of every drawn primitive lies within the canvas   *)
(* bounds 0..10 on both axes, which are the limits set on the axes: each   *)
(* box's x, y, x+width and y+height, each arrow's two end points, each     *)
(* label's anchor and each dotted line's two end points.                   *)
(***************************************************************************)
C4_WithinCanvas ==
    /\ \A i \in DOMAIN patches :
          LET p == patches[i] IN
          IF IsBox(p)
            THEN InCanvas(p.x, p.y) /\ InCanvas(p.x + p.width, p.y + p.height)
            ELSE InCanvas(p.posA[1], p.posA[2]) /\ InCanvas(p.posB[1], p.posB[2])
    /\ \A i \in DOMAIN texts : InCanvas(texts[i].x, texts[i].y)
    /\ \A i \in DOMAIN lines :
          \A e \in DOMAIN lines[i].xdata : InCanvas(lines[i].xdata[e], lines[i].ydata[e])
    /\ (patches # <<>> \/ texts # <<>> \/ lines # <<>>)
          => xlim = <<0, 1000>> /\ ylim = <<0, 1000>>

C4_Witness ==
    /\ DrawingDone
    /\ Len(patches) = 20 /\ Len(lines) = 3 /\ Len(texts) > 40

(***************************************************************************)
(* C5.  As claimed: if the output directory is not writable, the save      *)
(* fails and leaves the output path either without a file or with the      *)
(* previously existing valid file, its content unchanged.                  *)
(***************************************************************************)
PathUntouched ==
    \/ file.state = "absent"
    \/ fileBefore.state = "png" /\ file = fileBefore

C5_UnwritableDirectoryFails ==
    (SaveCalls # {} /\ ~dirWritable) => (exitCode = 1 /\ PathUntouched)

(***************************************************************************)
(* C5, amended.  If the output path cannot be opened for writing (the      *)
(* directory is not writable and no file exists at the path, or the file   *)
(* that exists there is not writable), the save fails, the run exits with  *)
(* a non-zero status and the path is left exactly as it was: still without *)
(* a file, or with the previous file unchanged.  (A writable file in a     *)
(* directory that is not writable is opened and overwritten.)              *)
(***************************************************************************)
CouldOpen == IF fileBefore.state = "absent" THEN dirWritable ELSE fileWritable

C5_FailedOpenLeavesPath ==
    (SaveCalls # {} /\ ~CouldOpen) =>
        /\ exitCode = 1
        /\ SavesDone = {}
        /\ file = fileBefore
        /\ PathUntouched

C5_Witness ==
    /\ SaveCalls # {}
    /\ ~dirWritable
    /\ ~fileWritable
    /\ fileBefore = Png(0)
    /\ exitCode = 1

(***************************************************************************)
(* C6.  After a run that exits with status 0 the output file exists and    *)
(* holds a complete image written by that run, and exactly one             *)
(* confirmation line, containing the output file name, is on standard      *)
(* output.  The line is printed only after savefig has returned normally:  *)
(* a run whose save fails prints nothing.                                  *)
(***************************************************************************)
C6_ConfirmationAfterSave ==
    /\ exitCode = 0 =>
          /\ file = Png(run)
          /\ Len(stdout) = 1
          /\ Contains(stdout[1], OutputPath)
    /\ Len(stdout) <= 1
    /\ stdout # <<>> => SavesDone # {}
    /\ (SaveCalls \cap Failures # {}) => stdout = <<>>

C6_Witness ==
    /\ exitCode = 0
    /\ fileBefore = Png(0)
    /\ file = Png(run)
    /\ Len(stdout) = 1

(***************************************************************************)
(* C7.  Every run terminates, with exit status 0 when every statement has  *)
(* returned normally and with a non-zero status when a call has raised.    *)
(* A call that raises is the last one of the run: no later statement is    *)
(* executed, no statement is attempted twice, savefig is attempted at most *)
(* once, and nothing changes once the process has exited.                  *)
(***************************************************************************)
OutcomeOK ==
    /\ exitCode \in {-1, 0, 1}
    /\ exitCode = 0 => Failures = {} /\ pc = Len(Program) + 1
    /\ exitCode = 1 => Failures = {Len(trace)}
    /\ Failures # {} => exitCode = 1

NoRetry ==
    /\ \A j, k \in DOMAIN trace : trace[j].stmt = trace[k].stmt => j = k
    /\ \A k \in DOMAIN trace : trace[k].stmt = k
    /\ Cardinality(SaveCalls) <= 1

C7_TerminatesWithoutRetry ==
    /\ <>Terminated
    /\ [](OutcomeOK /\ NoRetry)
    /\ [][Terminated => UNCHANGED vars]_vars

C7_Witness ==
    /\ exitCode = 1
    /\ Len(trace) > 1
    /\ trace[Len(trace)].op = "add_patch"
    /\ ~trace[Len(trace)].ok

(***************************************************************************)
(* C8.  Two runs draw the same primitives: whatever command line each is   *)
(* started with and whatever file each finds at the output path, the       *)
(* second process adds the same patches, labels, lines and legend, with    *)
(* the same positions, sizes and styles and in the same order, as the      *)
(* first one.                                                              *)
(***************************************************************************)
C8_SamePrimitives ==
    run > 1 =>
        /\ Agree(patches, prev.patches)
        /\ Agree(texts, prev.texts)
        /\ Agree(lines, prev.lines)
        /\ Agree(legend, prev.legend)
        /\ (PrevComplete /\ DrawingDone) =>
              prev = [patches |-> patches, texts |-> texts, lines |-> lines,
                      legend |-> legend]

C8_Witness ==
    /\ run = 2
    /\ DrawingDone /\ PrevComplete
    /\ Len(argv) > 1
    /\ fileBefore = Png(1)
    /\ exitCode = 0

(***************************************************************************)
(* C9.  Each arrow connects the two boxes named in the comment above it:   *)
(* its first point lies on the boundary of the rectangle of the first box  *)
(* and its second point on the boundary of the rectangle of the second.    *)
(***************************************************************************)
C9_ArrowsConnectNamedBoxes ==
    \A c \in DOMAIN ArrowComments :
        \A a \in Drawn(ArrowComments[c][1]) :
            /\ \E b \in Drawn(ArrowComments[c][2]) : OnBoundary(patches[a].posA, patches[b])
            /\ \E b \in Drawn(ArrowComments[c][3]) : OnBoundary(patches[a].posB, patches[b])

(***************************************************************************)
(* C10.  No two of the drawn boxes overlap: for every pair of distinct     *)
(* boxes the rectangles, each enlarged by the 0.1 pad on every side, have  *)
(* disjoint interiors.                                                     *)
(***************************************************************************)
C10_BoxesDisjoint ==
    \A i, j \in DOMAIN Boxes : i # j => PaddedDisjoint(Boxes[i], Boxes[j])

C10_Witness == Len(Boxes) = 10 /\ exitCode = 0

====
